---- MODULE Spec2Model ----
(***************************************************************************)
(* Verification model of PortfolioManager (src/script.js): the fuzzy       *)
(* matcher of the voice commands (levenshteinDistance,                     *)
(* calculateSimilarity, findBestMatch), the dispatcher                     *)
(* (processVoiceCommand) with the catalog actions it can invoke, the theme *)
(* (setupDarkMode, applyDarkMode, toggleDarkMode), the error handling      *)
(* (handleError, retryOperation) with cleanup, the notifications           *)
(* (showNotification and its timers), the throttled scroll and resize      *)
(* handlers (throttle, handleResize), and the voice button with the        *)
(* recognizer's session (toggleVoiceRecognition, setupVoiceInterface).     *)
(*                                                                         *)
(* A JavaScript string is modelled as a sequence of one-character strings: *)
(* "abc" is <<"a", "b", "c">>, "" is << >>, s.length is Len(s) and         *)
(* s.charAt(i - 1) is s[i].                                                *)
(*                                                                         *)
(* A similarity score is a JavaScript double obtained by one division of   *)
(* two small integers.  It is modelled as the rational number it rounds,   *)
(* kept in lowest terms, so that two scores are equal here exactly when    *)
(* the doubles are equal (for operands this small a correctly rounded      *)
(* quotient identifies the rational).                                      *)
(***************************************************************************)
EXTENDS Integers, Sequences, FiniteSets, TLC

VARIABLES
    call,             \* the last direct call of a matcher function, with its result
    voiceCommands,    \* this.config.voiceCommands: a sequence of [phrase, action]
    voiceRecognition, \* this.components.voiceRecognition: "null" or "recognizer"
    phase,            \* "constructed" until the deferred setup has run, then "ready"
    isDarkMode,       \* this.state.isDarkMode
    theme,            \* localStorage item 'theme': "none", "dark" or "light"
    hasContainer,     \* whether the document has #notification-container
    sections,         \* ids of the section elements the document has
    container,        \* children of #notification-container, oldest first
    resultEvent,      \* the recognizer's result event waiting for onresult
    dispatch,         \* the last run of processVoiceCommand and what it did
    schemeChange,     \* the last 'change' event of the colour-scheme media query
    userToggled,      \* whether toggleDarkMode has been called for the user
    retryOps,         \* the calls of retryOperation made so far, oldest first
    handled,          \* the last run of handleError for an error the window reported
    timers,           \* the auto-remove timers pending, oldest first: whether the notification is still attached
    tracked,          \* position in timers of the timer of one notification that is followed (0: none)
    inThrottle,       \* of each throttled handler, TRUE while its window is open
    resetTimers,      \* of each throttled handler, the number of its pending window-reset timers
    sinceInvoked,     \* of each throttled handler, TRUE while less than its limit has passed since it last invoked its function
    throttled,        \* the last call of a throttled handler and what it did
    isListening,      \* this.state.isListening
    recognition,      \* the recognizer's session: "idle", "starting", "active", "stopping" or "ending"
    toggle            \* the last run of toggleVoiceRecognition and what it did

vars == <<call, voiceCommands, voiceRecognition, phase, isDarkMode, theme,
          hasContainer, sections, container, resultEvent, dispatch,
          schemeChange, userToggled, retryOps,
          handled,
          timers, tracked,
          inThrottle, resetTimers, sinceInvoked, throttled,
          isListening, recognition, toggle>>

matcherVars == <<call>>

managerVars == <<voiceCommands, voiceRecognition, phase, isDarkMode, theme,
                 hasContainer, sections, container, resultEvent, dispatch,
                 schemeChange, userToggled, retryOps,
          handled,
          timers, tracked,
          inThrottle, resetTimers, sinceInvoked, throttled,
          isListening, recognition, toggle>>

----------------------------------------------------------------------------
(* Bounds of the model *)

\* longest string given to the matcher functions when they are called directly
MaxLen == 3

\* longest candidate phrase of a catalog given to findBestMatch when it is
\* called directly
MaxPhraseLen == 2

\* largest catalog given to findBestMatch when it is called directly
MaxCatalog == 2

\* characters of the strings given to the matcher functions
Alphabet == {"a", "b"}

RECURSIVE StringsOfLen(_)
StringsOfLen(n) ==
    IF n = 0 THEN {<< >>}
    ELSE {Append(s, c) : s \in StringsOfLen(n - 1), c \in Alphabet}

Strings == UNION {StringsOfLen(n) : n \in 0..MaxLen}

RECURSIVE CatalogsOfLen(_)
CatalogsOfLen(n) ==
    IF n = 0 THEN {<< >>}
    ELSE {Append(cs, c) : cs \in CatalogsOfLen(n - 1),
                          c \in UNION {StringsOfLen(m) : m \in 0..MaxPhraseLen}}

Catalogs == UNION {CatalogsOfLen(n) : n \in 0..MaxCatalog}

----------------------------------------------------------------------------
(* Numbers *)

Abs(x) == IF x < 0 THEN -x ELSE x

RECURSIVE GCD(_, _)
GCD(x, y) == IF y = 0 THEN x ELSE GCD(y, x % y)

\* the result of 0 / 0
NaN == [num |-> 0, den |-> 0]

\* The number n / d (d >= 0), in lowest terms.  A division by 0 does not
\* throw in JavaScript: 0 / 0 is NaN and n / 0 is Infinity or -Infinity, kept
\* here as a number with denominator 0.
Quotient(n, d) ==
    IF d = 0
    THEN IF n = 0 THEN NaN
         ELSE [num |-> IF n > 0 THEN 1 ELSE -1, den |-> 0]
    ELSE LET g == GCD(Abs(n), d)
         IN  [num |-> n \div g, den |-> d \div g]

Zero == [num |-> 0, den |-> 1]
One == [num |-> 1, den |-> 1]

\* x > y on numbers
Greater(x, y) == x.num * y.den > y.num * x.den

\* x <= y on numbers
AtMost(x, y) == x.num * y.den <= y.num * x.den

\* Math.min that leaves out its last argument
MathMinOfTwo(x, y, z) == IF x <= y THEN x ELSE y

\* Math.max written for Math.min
MathMax(x, y, z) ==
    IF x >= y /\ x >= z THEN x
    ELSE IF y >= z THEN y
    ELSE z

MathMin(x, y, z) ==
    IF x <= y /\ x <= z THEN x
    ELSE IF y <= z THEN y
    ELSE z

----------------------------------------------------------------------------
(* levenshteinDistance (src/script.js:373-399) *)

\* row 0 numbered from 1 instead of 0
InitMatrixFromOne(str1, str2) ==
    [i \in 1..(Len(str2) + 1) |->
        IF i = 1 THEN [j \in 1..(Len(str1) + 1) |-> j]
        ELSE <<i - 1>>]

\* matrix[i] = [i] for i = 0..str2.length, then matrix[0][j] = j for
\* j = 0..str1.length: row 0 is complete and every other row holds its
\* column 0.  Row i of the matrix is the (i+1)-th element, and column j of a
\* row is its (j+1)-th element.
InitMatrix(str1, str2) ==
    [i \in 1..(Len(str2) + 1) |->
        IF i = 1 THEN [j \in 1..(Len(str1) + 1) |-> j - 1]
        ELSE <<i - 1>>]

\* a substitution counted as two edits
RECURSIVE FillRowSubstitutionCostsTwo(_, _, _, _, _)
FillRowSubstitutionCostsTwo(str1, str2, i, prev, row) ==
    LET j == Len(row)
    IN  IF j > Len(str1) THEN row
        ELSE LET cell ==
                    IF str2[i] = str1[j]
                    THEN prev[j]
                    ELSE MathMin(prev[j] + 2, row[j] + 1, prev[j + 1] + 1)
             IN  FillRowSubstitutionCostsTwo(str1, str2, i, prev, Append(row, cell))

\* a substitution counted as no edit
RECURSIVE FillRowFreeSubstitution(_, _, _, _, _)
FillRowFreeSubstitution(str1, str2, i, prev, row) ==
    LET j == Len(row)
    IN  IF j > Len(str1) THEN row
        ELSE LET cell ==
                    IF str2[i] = str1[j]
                    THEN prev[j]
                    ELSE MathMin(prev[j], row[j] + 1, prev[j + 1] + 1)
             IN  FillRowFreeSubstitution(str1, str2, i, prev, Append(row, cell))

\* the inner loop over j = 1..str1.length for row i; row holds the cells
\* matrix[i][0..j-1] already written and prev is the finished row i - 1
RECURSIVE FillRow(_, _, _, _, _)
FillRow(str1, str2, i, prev, row) ==
    LET j == Len(row)
    IN  IF j > Len(str1) THEN row
        ELSE LET cell ==
                    IF str2[i] = str1[j]
                    THEN prev[j]
                    ELSE MathMin(prev[j] + 1, row[j] + 1, prev[j + 1] + 1)
             IN  FillRow(str1, str2, i, prev, Append(row, cell))

\* the outer loop over i = 1..str2.length
RECURSIVE FillMatrix(_, _, _, _)
FillMatrix(str1, str2, i, matrix) ==
    IF i > Len(str2) THEN matrix
    ELSE FillMatrix(str1, str2, i + 1,
            [matrix EXCEPT ![i + 1] =
                FillRow(str1, str2, i, matrix[i], matrix[i + 1])])

levenshteinDistance(str1, str2) ==
    FillMatrix(str1, str2, 1, InitMatrix(str1, str2))[Len(str2) + 1][Len(str1) + 1]

----------------------------------------------------------------------------
(* calculateSimilarity (src/script.js:360-368) *)

\* the first argument always taken as the longer string
calculateSimilarityFirstLonger(str1, str2) ==
    LET longer == str1
        shorter == str2
    IN  IF Len(longer) = 0 THEN One
        ELSE Quotient(Len(longer) - levenshteinDistance(longer, shorter),
                      Len(longer))

\* two empty strings scored 0
calculateSimilarityEmptyZero(str1, str2) ==
    LET longer == IF Len(str1) > Len(str2) THEN str1 ELSE str2
        shorter == IF Len(str1) > Len(str2) THEN str2 ELSE str1
    IN  IF Len(longer) = 0 THEN Zero
        ELSE Quotient(Len(longer) - levenshteinDistance(longer, shorter),
                      Len(longer))

\* the test for two empty strings left out
calculateSimilarityNoEmptyTest(str1, str2) ==
    LET longer == IF Len(str1) > Len(str2) THEN str1 ELSE str2
        shorter == IF Len(str1) > Len(str2) THEN str2 ELSE str1
    IN  Quotient(Len(longer) - levenshteinDistance(longer, shorter),
                 Len(longer))

calculateSimilarity(str1, str2) ==
    LET longer == IF Len(str1) > Len(str2) THEN str1 ELSE str2
        shorter == IF Len(str1) > Len(str2) THEN str2 ELSE str1
    IN  IF Len(longer) = 0 THEN One
        ELSE Quotient(Len(longer) - levenshteinDistance(longer, shorter),
                      Len(longer))

----------------------------------------------------------------------------
(* findBestMatch (src/script.js:344-355) *)

\* JavaScript null in the command field of a match: a value that is no string
\* over any alphabet of the model
Null == <<"null">>

\* score >= bestMatch.score: a later candidate with an equal score replaces
\* the current best
RECURSIVE ForEachCommandLastWins(_, _, _, _)
ForEachCommandLastWins(input, commands, k, bestMatch) ==
    IF k > Len(commands) THEN bestMatch
    ELSE LET command == commands[k]
             score == calculateSimilarity(input, command)
         IN  ForEachCommandLastWins(input, commands, k + 1,
                IF ~Greater(bestMatch.score, score)
                THEN [command |-> command, score |-> score]
                ELSE bestMatch)

\* the input stored in the match instead of the candidate
RECURSIVE ForEachCommandKeepsInput(_, _, _, _)
ForEachCommandKeepsInput(input, commands, k, bestMatch) ==
    IF k > Len(commands) THEN bestMatch
    ELSE LET command == commands[k]
             score == calculateSimilarity(input, command)
         IN  ForEachCommandKeepsInput(input, commands, k + 1,
                IF Greater(score, bestMatch.score)
                THEN [command |-> input, score |-> score]
                ELSE bestMatch)

\* the loop stopping one command early
RECURSIVE ForEachCommandSkipsLast(_, _, _, _)
ForEachCommandSkipsLast(input, commands, k, bestMatch) ==
    IF k >= Len(commands) THEN bestMatch
    ELSE LET command == commands[k]
             score == calculateSimilarity(input, command)
         IN  ForEachCommandSkipsLast(input, commands, k + 1,
                IF Greater(score, bestMatch.score)
                THEN [command |-> command, score |-> score]
                ELSE bestMatch)

\* commands.forEach(...) from the k-th command on
RECURSIVE ForEachCommand(_, _, _, _)
ForEachCommand(input, commands, k, bestMatch) ==
    IF k > Len(commands) THEN bestMatch
    ELSE LET command == commands[k]
             score == calculateSimilarity(input, command)
         IN  ForEachCommand(input, commands, k + 1,
                IF Greater(score, bestMatch.score)
                THEN [command |-> command, score |-> score]
                ELSE bestMatch)

\* the best score started at -1
findBestMatchFromMinusOne(input, commands) ==
    ForEachCommand(input, commands, 1, [command |-> Null, score |-> Quotient(-1, 1)])

findBestMatch(input, commands) ==
    ForEachCommand(input, commands, 1, [command |-> Null, score |-> Zero])

----------------------------------------------------------------------------
(* Direct calls of the matcher functions *)

\* the strings of the reference cases: "kitten", "sitting" and "abc"
Kitten == <<"k", "i", "t", "t", "e", "n">>
Sitting == <<"s", "i", "t", "t", "i", "n", "g">>
Abc == <<"a", "b", "c">>

\* the utterance "go too contact", and three phrases of the catalog
GoTooContact == <<"g", "o", " ", "t", "o", "o", " ", "c", "o", "n", "t", "a", "c", "t">>
GoToContact == <<"g", "o", " ", "t", "o", " ", "c", "o", "n", "t", "a", "c", "t">>
ShowProjects == <<"s", "h", "o", "w", " ", "p", "r", "o", "j", "e", "c", "t", "s">>
AboutMe == <<"a", "b", "o", "u", "t", " ", "m", "e">>
ThreePhrases == <<GoToContact, ShowProjects, AboutMe>>

\* the pairs of strings the two-string functions are called with
StringPairs ==
    (Strings \X Strings)
        \cup {<<Kitten, Sitting>>, <<Sitting, Kitten>>, <<<< >>, Abc>>, <<Abc, << >>>>}

\* a call that has not been made: its function and arguments, no result yet
NoCall ==
    [fn |-> "none", done |-> FALSE, str1 |-> << >>, str2 |-> << >>,
     commands |-> << >>, distance |-> 0, score |-> Zero,
     bestMatch |-> [command |-> Null, score |-> Zero]]

\* the calls to make: every function on every input of the bounded sets
IsCall(c) ==
    \/ \E p \in StringPairs :
        c = [NoCall EXCEPT !.fn = "levenshteinDistance", !.str1 = p[1], !.str2 = p[2]]
    \/ \E p \in StringPairs :
        c = [NoCall EXCEPT !.fn = "calculateSimilarity", !.str1 = p[1], !.str2 = p[2]]
    \/ \E input \in Strings, commands \in Catalogs :
        c = [NoCall EXCEPT !.fn = "findBestMatch", !.str1 = input,
                           !.commands = commands]
    \/ c = [NoCall EXCEPT !.fn = "findBestMatch", !.str1 = GoTooContact,
                           !.commands = ThreePhrases]

CallLevenshteinDistance ==
    /\ call.fn = "levenshteinDistance" /\ ~call.done
    /\ call' = [call EXCEPT !.done = TRUE,
                            !.distance = levenshteinDistance(call.str1, call.str2)]
    /\ UNCHANGED managerVars

CallCalculateSimilarity ==
    /\ call.fn = "calculateSimilarity" /\ ~call.done
    /\ call' = [call EXCEPT !.done = TRUE,
                            !.score = calculateSimilarity(call.str1, call.str2)]
    /\ UNCHANGED managerVars

\* the match kept in the manager's record of the last run
CallFindBestMatchRetained ==
    /\ call.fn = "findBestMatch" /\ ~call.done
    /\ call' = [call EXCEPT !.done = TRUE,
                            !.bestMatch = findBestMatch(call.str1, call.commands)]
    /\ dispatch' = [dispatch EXCEPT
                        !.bestMatch = findBestMatch(call.str1, call.commands)]
    /\ UNCHANGED <<voiceCommands, voiceRecognition, phase, isDarkMode, theme,
                   hasContainer, sections, container, resultEvent,
                   schemeChange, userToggled, retryOps,
                   handled,
                   timers, tracked,
                   inThrottle, resetTimers, sinceInvoked, throttled,
                   isListening, recognition, toggle>>

CallFindBestMatch ==
    /\ call.fn = "findBestMatch" /\ ~call.done
    /\ call' = [call EXCEPT !.done = TRUE,
                            !.bestMatch = findBestMatch(call.str1, call.commands)]
    /\ UNCHANGED managerVars

----------------------------------------------------------------------------
(* The PortfolioManager: catalog, notifications and catalog actions *)

\* this.config.voiceCommands as the constructor builds it (src/script.js:80-90);
\* an action is the closure bound to the phrase, named by the method it calls
\* and that method's argument
ConfigVoiceCommands ==
    <<[phrase |-> <<"g", "o", " ", "t", "o", " ", "c", "o", "n", "t", "a", "c", "t">>,
       action |-> [fn |-> "scrollToSection", arg |-> "contact"]],
      [phrase |-> <<"s", "h", "o", "w", " ", "p", "r", "o", "j", "e", "c", "t", "s">>,
       action |-> [fn |-> "scrollToSection", arg |-> "projects"]],
      [phrase |-> <<"a", "b", "o", "u", "t", " ", "m", "e">>,
       action |-> [fn |-> "scrollToSection", arg |-> "about"]],
      [phrase |-> <<"s", "k", "i", "l", "l", "s">>,
       action |-> [fn |-> "scrollToSection", arg |-> "skills"]],
      [phrase |-> <<"e", "d", "u", "c", "a", "t", "i", "o", "n">>,
       action |-> [fn |-> "scrollToSection", arg |-> "education"]],
      [phrase |-> <<"d", "o", "w", "n", "l", "o", "a", "d", " ", "r", "e", "s", "u", "m", "e">>,
       action |-> [fn |-> "downloadResume", arg |-> ""]],
      [phrase |-> <<"g", "o", " ", "h", "o", "m", "e">>,
       action |-> [fn |-> "scrollToSection", arg |-> "home"]],
      [phrase |-> <<"t", "o", "g", "g", "l", "e", " ", "d", "a", "r", "k", " ", "m", "o", "d", "e">>,
       action |-> [fn |-> "toggleDarkMode", arg |-> ""]],
      [phrase |-> <<"s", "c", "r", "o", "l", "l", " ", "t", "o", " ", "t", "o", "p">>,
       action |-> [fn |-> "scrollToTop", arg |-> ""]]>>

\* Object.keys(object): the keys in insertion order
ObjectKeys(object) == [k \in 1..Len(object) |-> object[k].phrase]

\* object[key]
Lookup(object, key) ==
    object[CHOOSE k \in 1..Len(object) : object[k].phrase = key].action

\* ids of the sections the catalog actions scroll to
SectionIds == {"contact", "projects", "about", "skills", "education", "home"}

\* most notifications the container holds at once
MaxNotifications == 2

\* What one handler run has done so far: the manager state it has written and
\* the calls it has made.  bestMatch is what its call of findBestMatch
\* returned, invoked lists the catalog actions called, shown the
\* showNotification calls and outputs the calls that scroll the page or speak to
\* the screen reader.
Run(command) ==
    [command |-> command, isDarkMode |-> isDarkMode, theme |-> theme,
     container |-> container, bestMatch |-> [command |-> Null, score |-> Zero],
     invoked |-> << >>, shown |-> << >>, outputs |-> << >>,
     retryOps |-> retryOps, timers |-> timers]

\* showNotification(message, type) (src/script.js:956-984): nothing without the
\* container; otherwise the notification is appended and its auto-remove timer
\* is scheduled (NotificationTimeout below)
showNotification(m, message, type) ==
    LET called == [m EXCEPT !.shown = Append(@, [message |-> message, type |-> type])]
    IN  IF ~hasContainer THEN called
        ELSE [called EXCEPT
                !.container = Append(@, [message |-> message, type |-> type]),
                !.timers = Append(@, TRUE)]

\* announceToScreenReader(message) (src/script.js:989-996); this.announcer is
\* set by setupAccessibility in the deferred setup
announceToScreenReader(m, message) ==
    IF phase = "ready"
    THEN [m EXCEPT !.outputs = Append(@, [call |-> "announce", arg |-> message])]
    ELSE m

\* scrollToSection(sectionId) (src/script.js:714-720)
scrollToSection(m, sectionId) ==
    IF sectionId \in sections
    THEN announceToScreenReader(
            [m EXCEPT !.outputs =
                Append(@, [call |-> "scrollIntoView", arg |-> sectionId])],
            sectionId)
    ELSE m

\* scrollToTop() (src/script.js:722-724)
scrollToTop(m) ==
    [m EXCEPT !.outputs = Append(@, [call |-> "scrollTo", arg |-> "top"])]

\* applyDarkMode() (src/script.js:424-445): the class and data-theme of the
\* document follow isDarkMode, and the choice is saved
applyDarkMode(m) ==
    [m EXCEPT !.theme = IF m.isDarkMode THEN "dark" ELSE "light"]

\* toggleDarkMode() (src/script.js:450-454)
toggleDarkMode(m) ==
    LET applied == applyDarkMode([m EXCEPT !.isDarkMode = ~m.isDarkMode])
    IN  showNotification(applied,
            <<"Switched to ", IF applied.isDarkMode THEN "dark" ELSE "light", " mode">>,
            "info")

\* downloadResume() (src/script.js:1039-1043)
downloadResume(m) ==
    showNotification(m, <<"Resume download started!">>, "success")

\* calling the closure bound to a catalog phrase
Invoke(m, action) ==
    LET called == [m EXCEPT !.invoked = Append(@, action)]
    IN  CASE action.fn = "scrollToSection" -> scrollToSection(called, action.arg)
          [] action.fn = "downloadResume" -> downloadResume(called)
          [] action.fn = "toggleDarkMode" -> toggleDarkMode(called)
          [] action.fn = "scrollToTop" -> scrollToTop(called)

----------------------------------------------------------------------------
(* handleError and retryOperation (src/script.js:609-651) *)

\* largest maxRetries given to retryOperation when it is called directly
MaxRetriesArg == 3

\* the maxRetries handleError passes to retryOperation
HandleErrorRetries == 3

\* Values an operation can throw: null (or undefined), and errors with a name
\* and a message
NullError == [name |-> "null", message |-> ""]

Errors ==
    {NullError,
     [name |-> "NetworkError", message |-> "offline"],
     [name |-> "TypeError", message |-> "Failed to fetch"],
     [name |-> "Error", message |-> "failed"]}

\* the messages for which message.includes('fetch') holds
MessagesWithFetch == {"Failed to fetch"}

\* Math.pow(base, exponent) for a natural exponent
RECURSIVE MathPow(_, _)
MathPow(base, exponent) ==
    IF exponent = 0 THEN 1 ELSE base * MathPow(base, exponent - 1)

\* One call of retryOperation(operation, maxRetries): its local retries, the
\* delay in ms of the timer it has pending (0: none), and what has happened
\* to it: the delays of the timers it has set, how often the operation has
\* been called and has thrown, how often handleError has been called for it,
\* and whether the operation has returned.  operation is "given" for an
\* operation of the caller, which may throw, and "log" for the closure of
\* handleError, which only writes to the console.
NewRetry(operation, maxRetries) ==
    [operation |-> operation, maxRetries |-> maxRetries, retries |-> 0,
     timer |-> 0, delays |-> << >>, attempts |-> 0, thrown |-> 0,
     reported |-> 0, returned |-> FALSE]

\* retries <= maxRetries written for retries < maxRetries
retryOffByOne(r) ==
    IF r.retries <= r.maxRetries
    THEN LET delay == MathPow(2, r.retries + 1) * 1000
         IN  [r EXCEPT !.retries = @ + 1, !.timer = delay,
                       !.delays = Append(@, delay)]
    ELSE r

\* the delay computed before retries is incremented
retryDelayBeforeIncrement(r) ==
    IF r.retries < r.maxRetries
    THEN LET delay == MathPow(2, r.retries) * 1000
         IN  [r EXCEPT !.retries = @ + 1, !.timer = delay,
                       !.delays = Append(@, delay)]
    ELSE r

\* the closure retry (src/script.js:637-649): one more timer while
\* retries < maxRetries, set for 2^retries * 1000 ms after the increment
retry(r) ==
    IF r.retries < r.maxRetries
    THEN LET delay == MathPow(2, r.retries + 1) * 1000
         IN  [r EXCEPT !.retries = @ + 1, !.timer = delay,
                       !.delays = Append(@, delay)]
    ELSE r

\* retryOperation(operation, maxRetries) (src/script.js:635-651)
retryOperation(m, operation, maxRetries) ==
    [m EXCEPT !.retryOps = Append(@, retry(NewRetry(operation, maxRetries)))]

\* reportError(error, context) (src/script.js:656-669): the error data is
\* written to the console
reportError(m, error, context) ==
    [m EXCEPT !.outputs = Append(@, [call |-> "reportError", arg |-> context])]

\* the test for a null or undefined error left out
handleErrorNoNullTest(m, error, context) ==
    LET retried ==
            IF error.name = "NetworkError" \/ error.message \in MessagesWithFetch
            THEN retryOperation(m, "log", HandleErrorRetries)
            ELSE m
    IN  showNotification(reportError(retried, error, context),
                         <<"An error occurred. Please try again.">>, "error")

\* handleError(error, context) (src/script.js:609-630)
handleError(m, error, context) ==
    IF error = NullError THEN m
    ELSE LET retried ==
                IF error.name = "NetworkError" \/ error.message \in MessagesWithFetch
                THEN retryOperation(m, "log", HandleErrorRetries)
                ELSE m
         IN  showNotification(reportError(retried, error, context),
                              <<"An error occurred. Please try again.">>, "error")

----------------------------------------------------------------------------
(* processVoiceCommand (src/script.js:329-339) *)

\* the literal 0.6
Threshold == [num |-> 3, den |-> 5]

\* score >= 0.6 written for score > 0.6
processVoiceCommandAtThreshold(m, command) ==
    LET commands == ObjectKeys(voiceCommands)
        bestMatch == findBestMatch(command, commands)
        matched == [m EXCEPT !.bestMatch = bestMatch]
    IN  IF ~Greater(Threshold, bestMatch.score)
        THEN Invoke(showNotification(matched, <<"Executing: ", bestMatch.command>>,
                                     "success"),
                    Lookup(voiceCommands, bestMatch.command))
        ELSE showNotification(matched, <<"Command not recognized">>, "warning")

\* the else of the acceptance test left out
processVoiceCommandNoElse(m, command) ==
    LET commands == ObjectKeys(voiceCommands)
        bestMatch == findBestMatch(command, commands)
        matched == [m EXCEPT !.bestMatch = bestMatch]
        accepted ==
            IF Greater(bestMatch.score, Threshold)
            THEN Invoke(showNotification(matched, <<"Executing: ", bestMatch.command>>,
                                         "success"),
                        Lookup(voiceCommands, bestMatch.command))
            ELSE matched
    IN  showNotification(accepted, <<"Command not recognized">>, "warning")

processVoiceCommand(m, command) ==
    LET commands == ObjectKeys(voiceCommands)
        bestMatch == findBestMatch(command, commands)
        matched == [m EXCEPT !.bestMatch = bestMatch]
    IN  IF Greater(bestMatch.score, Threshold)
        THEN Invoke(showNotification(matched, <<"Executing: ", bestMatch.command>>,
                                     "success"),
                    Lookup(voiceCommands, bestMatch.command))
        ELSE showNotification(matched, <<"Command not recognized">>, "warning")

----------------------------------------------------------------------------
(* voiceRecognition.onresult (src/script.js:301-304) *)

UpperCase == <<"A", "B", "C", "D", "E", "F", "G", "H", "I", "J", "K", "L", "M", "N", "O", "P", "Q", "R", "S", "T", "U", "V", "W", "X", "Y", "Z">>
LowerCase == <<"a", "b", "c", "d", "e", "f", "g", "h", "i", "j", "k", "l", "m", "n", "o", "p", "q", "r", "s", "t", "u", "v", "w", "x", "y", "z">>

\* String.prototype.toLowerCase
toLowerCase(s) ==
    [k \in 1..Len(s) |->
        IF \E n \in 1..Len(UpperCase) : UpperCase[n] = s[k]
        THEN LowerCase[CHOOSE n \in 1..Len(UpperCase) : UpperCase[n] = s[k]]
        ELSE s[k]]

\* String.prototype.trim: white space removed from both ends
RECURSIVE trimStart(_)
trimStart(s) ==
    IF Len(s) > 0 /\ Head(s) = " " THEN trimStart(Tail(s)) ELSE s

RECURSIVE trimEnd(_)
trimEnd(s) ==
    IF Len(s) > 0 /\ s[Len(s)] = " " THEN trimEnd(SubSeq(s, 1, Len(s) - 1)) ELSE s

trim(s) == trimEnd(trimStart(s))

----------------------------------------------------------------------------
(* Transcripts the speech recognizer delivers *)

\* most characters appended to or dropped from a catalog phrase
MaxPad == 4

Phrases == {ConfigVoiceCommands[k].phrase : k \in 1..Len(ConfigVoiceCommands)}

\* the phrase as the README spells it, with a capital first letter, and with
\* white space around it
Spoken(p) ==
    LET n == CHOOSE n \in 1..Len(LowerCase) : LowerCase[n] = Head(p)
    IN  <<" ", UpperCase[n]>> \o Tail(p) \o <<" ">>

RECURSIVE Repeat(_, _)
Repeat(c, k) == IF k = 0 THEN << >> ELSE <<c>> \o Repeat(c, k - 1)

Unrelated == <<"x", "y", "z", " ", "c", "o", "m", "p", "l", "e", "t", "e", "l", "y", " ", "u", "n", "r", "e", "l", "a", "t", "e", "d">>

Transcripts ==
    Phrases
        \cup {Spoken(p) : p \in Phrases}
        \cup {p \o Repeat("x", k) : p \in Phrases, k \in 1..MaxPad}
        \cup {SubSeq(p, 1, Len(p) - k) : p \in Phrases, k \in 1..MaxPad}
        \cup {GoTooContact, Unrelated, << >>}

----------------------------------------------------------------------------
(* Events of the manager *)

NoEvent == [pending |-> FALSE, transcript |-> << >>]

\* the events whose listeners are throttled
Throttles == {"scroll", "resize"}

\* before any throttled handler has been called
NoThrottled ==
    [ran |-> FALSE, name |-> "scroll", open |-> FALSE, invoked |-> FALSE,
     thrown |-> FALSE, seq |-> 0]

\* toggleVoiceRecognition has not run
NoToggle ==
    [ran |-> FALSE, isListening |-> FALSE, recognition |-> "idle",
     outputs |-> << >>, shown |-> << >>, seq |-> 0]

\* handleError has not run for an error of the window
NoHandled ==
    [ran |-> FALSE, error |-> NullError, shown |-> << >>, outputs |-> << >>,
     retried |-> 0]

\* no 'change' event of the media query has been delivered
NoSchemeChange == [delivered |-> FALSE, matches |-> FALSE]

NoDispatch ==
    [ran |-> FALSE, command |-> << >>,
     bestMatch |-> [command |-> Null, score |-> Zero],
     invoked |-> << >>, shown |-> << >>, outputs |-> << >>]

\* The state the constructor and the synchronous part of init() leave
\* (src/script.js:76-160): the catalog is built, no recognizer exists yet, and
\* init() has shown its notification.  What the browser holds is any of its
\* possible values: the saved theme, and the elements of the document.
InitManager ==
    /\ voiceCommands = ConfigVoiceCommands
    /\ voiceRecognition = "null"
    /\ phase = "constructed"
    /\ isDarkMode = FALSE
    /\ theme \in {"none", "dark", "light"}
    /\ hasContainer \in BOOLEAN
    /\ sections \in {SectionIds, {}}
    /\ container =
        IF hasContainer
        THEN <<[message |-> <<"Portfolio loaded successfully!">>, type |-> "success"]>>
        ELSE << >>
    /\ resultEvent = NoEvent
    /\ dispatch = NoDispatch
    /\ schemeChange = NoSchemeChange
    /\ handled = NoHandled
    /\ timers = [k \in 1..Len(container) |-> TRUE]
    /\ tracked = 0
    /\ inThrottle = [name \in Throttles |-> FALSE]
    /\ resetTimers = [name \in Throttles |-> 0]
    /\ sinceInvoked = [name \in Throttles |-> FALSE]
    /\ throttled = NoThrottled
    /\ isListening = FALSE
    /\ recognition = "idle"
    /\ toggle = NoToggle
    /\ userToggled = FALSE
    /\ retryOps = << >>

\* The callback init() defers (src/script.js:130-149), here its parts that
\* write the modelled state: setupVoiceInterface (src/script.js:286-324) creates
\* the recognizer where the browser supports one, setupDarkMode
\* (src/script.js:404-419) takes the saved theme or else the system preference
\* and applies it, and setupAccessibility creates the announcer.
DeferredSetup(supported, prefersDark) ==
    /\ phase = "constructed"
    /\ phase' = "ready"
    /\ voiceRecognition' = IF supported THEN "recognizer" ELSE "null"
    /\ LET dark == theme = "dark" \/ (theme = "none" /\ prefersDark)
           applied == applyDarkMode([Run(<< >>) EXCEPT !.isDarkMode = dark])
       IN  /\ isDarkMode' = applied.isDarkMode
           /\ theme' = applied.theme
    /\ UNCHANGED <<call, voiceCommands, hasContainer, sections, container,
                   resultEvent, dispatch, schemeChange, userToggled, retryOps,
                   handled,
                   timers, tracked,
                   inThrottle, resetTimers, sinceInvoked, throttled,
                   isListening, recognition, toggle>>

\* The recognizer has heard a transcript and queues its result event.  The
\* run recorded in dispatch is that of the previous event and is forgotten.
Recognize(transcript) ==
    /\ voiceRecognition = "recognizer"
    /\ ~resultEvent.pending
    /\ Len(container) + 2 <= MaxNotifications
    /\ resultEvent' = [pending |-> TRUE, transcript |-> transcript]
    /\ dispatch' = NoDispatch
    /\ UNCHANGED <<call, voiceCommands, voiceRecognition, phase, isDarkMode,
                   theme, hasContainer, sections, container, schemeChange,
                   userToggled, retryOps,
                   handled,
                   timers, tracked,
                   inThrottle, resetTimers, sinceInvoked, throttled,
                   isListening, recognition, toggle>>

\* whether the catalog actions called include toggleDarkMode
Toggles(invoked) ==
    \E k \in 1..Len(invoked) : invoked[k].fn = "toggleDarkMode"

\* voiceRecognition.onresult (src/script.js:301-304)
OnResult ==
    /\ resultEvent.pending
    /\ \E command \in {trim(toLowerCase(resultEvent.transcript))} :
       \E m \in {processVoiceCommand(Run(command), command)} :
            /\ isDarkMode' = m.isDarkMode
            /\ theme' = m.theme
            /\ container' = m.container
            /\ timers' = m.timers
            /\ dispatch' = [ran |-> TRUE, command |-> m.command,
                            bestMatch |-> m.bestMatch,
                            invoked |-> m.invoked, shown |-> m.shown,
                            outputs |-> m.outputs]
            /\ userToggled' = (userToggled \/ Toggles(m.invoked))
    /\ resultEvent' = NoEvent
    /\ UNCHANGED <<call, voiceCommands, voiceRecognition, phase, hasContainer,
                   sections, schemeChange, retryOps,
                   handled, tracked,
                   inThrottle, resetTimers, sinceInvoked, throttled,
                   isListening, recognition, toggle>>

\* a click on #dark-mode-toggle (src/script.js:206-209): toggleDarkMode
\* (src/script.js:450-454); the listener is added by setupEventListeners, before
\* the deferred setup
ClickDarkModeToggle ==
    /\ Len(container) + 1 <= MaxNotifications
    /\ \E m \in {toggleDarkMode(Run(<< >>))} :
            /\ isDarkMode' = m.isDarkMode
            /\ theme' = m.theme
            /\ container' = m.container
            /\ timers' = m.timers
    /\ userToggled' = TRUE
    /\ UNCHANGED <<call, voiceCommands, voiceRecognition, phase, hasContainer,
                   sections, resultEvent, dispatch, schemeChange, retryOps,
                   handled, tracked,
                   inThrottle, resetTimers, sinceInvoked, throttled,
                   isListening, recognition, toggle>>

\* The system colour scheme changes to dark (matches) or to light, and the
\* media query delivers its 'change' event to the listener setupDarkMode has
\* added (src/script.js:412-418): the listener follows the system only while
\* no theme is saved.
SystemThemeChange(matches) ==
    /\ phase = "ready"
    /\ schemeChange.delivered => matches # schemeChange.matches
    /\ schemeChange' = [delivered |-> TRUE, matches |-> matches]
    /\ IF theme = "none"
       THEN LET applied == applyDarkMode([Run(<< >>) EXCEPT !.isDarkMode = matches])
            IN  /\ isDarkMode' = applied.isDarkMode
                /\ theme' = applied.theme
       ELSE UNCHANGED <<isDarkMode, theme>>
    /\ UNCHANGED <<call, voiceCommands, voiceRecognition, phase, hasContainer,
                   sections, container, resultEvent, dispatch, userToggled,
                   retryOps,
                   handled,
                   timers, tracked,
                   inThrottle, resetTimers, sinceInvoked, throttled,
                   isListening, recognition, toggle>>

\* the outcomes of calling an operation: it returns, or it throws an error
Returns == [thrown |-> FALSE, error |-> NullError]

AllOutcomes == {Returns} \cup {[thrown |-> TRUE, error |-> e] : e \in Errors}

Outcomes(operation) ==
    IF operation = "log" THEN {Returns} ELSE AllOutcomes

\* a caller calls retryOperation(operation, maxRetries) with an operation of
\* its own
RetryOperation(maxRetries) ==
    /\ retryOps = << >>
    /\ retryOps' = retryOperation(Run(<< >>), "given", maxRetries).retryOps
    /\ UNCHANGED <<call, voiceCommands, voiceRecognition, phase, isDarkMode,
                   theme, hasContainer, sections, container, resultEvent,
                   dispatch, schemeChange, userToggled,
                   handled,
                   timers, tracked,
                   inThrottle, resetTimers, sinceInvoked, throttled,
                   isListening, recognition, toggle>>

\* The timer of the i-th retryOperation call fires (src/script.js:640-647):
\* the operation is called; if it throws, handleError is called with the
\* error and then retry.
RetryTimer(i, outcome) ==
    /\ i \in 1..Len(retryOps)
    /\ retryOps[i].timer # 0
    /\ outcome \in Outcomes(retryOps[i].operation)
    /\ Len(container) + 1 <= MaxNotifications
    /\ LET called == [retryOps EXCEPT ![i].timer = 0, ![i].attempts = @ + 1]
       IN  IF ~outcome.thrown
           THEN /\ retryOps' = [called EXCEPT ![i].returned = TRUE]
                /\ UNCHANGED <<container, timers>>
           ELSE \E m \in {handleError(
                            [Run(<< >>) EXCEPT
                                !.retryOps = [called EXCEPT ![i].thrown = @ + 1,
                                                            ![i].reported = @ + 1]],
                            outcome.error, "Retry operation")} :
                    /\ retryOps' = [m.retryOps EXCEPT ![i] = retry(@)]
                    /\ container' = m.container
                    /\ timers' = m.timers
    /\ UNCHANGED <<call, voiceCommands, voiceRecognition, phase, isDarkMode,
                   theme, hasContainer, sections, resultEvent, dispatch,
                   schemeChange, userToggled,
                   handled, tracked,
                   inThrottle, resetTimers, sinceInvoked, throttled,
                   isListening, recognition, toggle>>

\* most retryOperation calls made by handleError for errors the window reports
MaxRetryOps == 2

\* the window reports an uncaught error or an unhandled rejection to the
\* listeners setupErrorHandling has added (src/script.js:545-554): handleError
HandleErrorEvent(error) ==
    /\ phase = "ready"
    /\ Len(container) + 1 <= MaxNotifications
    /\ Len(retryOps) + 1 <= MaxRetryOps
    /\ \E m \in {handleError(Run(<< >>), error, "Global Error")} :
            /\ retryOps' = m.retryOps
            /\ container' = m.container
            /\ timers' = m.timers
            /\ handled' = [ran |-> TRUE, error |-> error, shown |-> m.shown,
                           outputs |-> m.outputs,
                           retried |-> Len(m.retryOps) - Len(retryOps)]
    /\ UNCHANGED <<call, voiceCommands, voiceRecognition, phase, isDarkMode,
                   theme, hasContainer, sections, resultEvent, dispatch,
                   schemeChange, userToggled, tracked,
                   inThrottle, resetTimers, sinceInvoked, throttled,
                   isListening, recognition, toggle>>

\* SpeechRecognition.start() and stop() on the recognizer's session: start
\* begins a session where none is under way, and otherwise throws and leaves
\* the session as it is; stop ends a session that is under way, which then
\* delivers what it has and its end event
InvalidStateError ==
    [name |-> "InvalidStateError", message |-> "recognition has already started"]

start(session) == IF session = "idle" THEN "starting" ELSE session

stop(session) ==
    IF session \in {"starting", "active"} THEN "stopping" ELSE session

\* the catalog emptied together with the components
CleanupClearsCatalog ==
    /\ voiceRecognition' = "null"
    /\ recognition' = IF voiceRecognition = "recognizer"
                       THEN stop(recognition)
                       ELSE recognition
    /\ voiceCommands' = << >>
    /\ UNCHANGED <<call, phase, isDarkMode, theme, hasContainer,
                   sections, container, resultEvent, dispatch, schemeChange,
                   userToggled, retryOps,
                   handled,
                   timers, tracked,
                   inThrottle, resetTimers, sinceInvoked, throttled,
                   isListening, toggle>>

\* cleanup() (src/script.js:1189-1216), called on beforeunload
\* (src/script.js:1254-1256): the recognizer is stopped and dropped; the
\* observers it disconnects are not part of the modelled state, and the page
\* that is unloaded delivers no further scroll or resize event
Cleanup ==
    /\ voiceRecognition' = "null"
    /\ recognition' = IF voiceRecognition = "recognizer"
                       THEN stop(recognition)
                       ELSE recognition
    /\ UNCHANGED <<call, voiceCommands, phase, isDarkMode, theme, hasContainer,
                   sections, container, resultEvent, dispatch, schemeChange,
                   userToggled, retryOps,
                   handled,
                   timers, tracked,
                   inThrottle, resetTimers, sinceInvoked, throttled,
                   isListening, toggle>>

\* some pending timer of a retryOperation call fires, with some outcome of
\* the operation
RetryTimerFires ==
    \E i \in 1..Len(retryOps), outcome \in AllOutcomes : RetryTimer(i, outcome)

\* most timers pending for notifications that have been closed by hand
MaxClosed == 1

\* the timers whose notification is still in the container
Attached == {i \in 1..Len(timers) : timers[i]}

\* the timer of the k-th notification in the container
TimerOf(k) ==
    CHOOSE i \in Attached : Cardinality({j \in Attached : j <= i}) = k

\* The close button of the k-th notification is clicked (src/script.js:964):
\* the notification is removed from the container; its timer stays pending.
CloseNotification(k) ==
    /\ k \in 1..Len(container)
    /\ Len(timers) - Cardinality(Attached) < MaxClosed
    /\ container' = [i \in 1..(Len(container) - 1) |->
                        IF i < k THEN container[i] ELSE container[i + 1]]
    /\ timers' = [timers EXCEPT ![TimerOf(k)] = FALSE]
    /\ UNCHANGED <<call, voiceCommands, voiceRecognition, phase, isDarkMode,
                   theme, hasContainer, sections, resultEvent, dispatch,
                   schemeChange, userToggled, retryOps, handled, tracked,
                   inThrottle, resetTimers, sinceInvoked, throttled,
                   isListening, recognition, toggle>>

\* one notification on display is picked to be followed until it is removed
Track(i) ==
    /\ tracked = 0
    /\ i \in Attached
    /\ tracked' = i
    /\ UNCHANGED <<call, voiceCommands, voiceRecognition, phase, isDarkMode,
                   theme, hasContainer, sections, container, resultEvent,
                   dispatch, schemeChange, userToggled, retryOps, handled,
                   timers,
                   inThrottle, resetTimers, sinceInvoked, throttled,
                   isListening, recognition, toggle>>

\* the timer removing the oldest notification on display, whether or not
\* its own notification is still attached
NotificationTimeoutNoParentTest ==
    /\ timers # << >>
    /\ timers' = Tail(timers)
    /\ tracked' = IF tracked > 0 THEN tracked - 1 ELSE 0
    /\ IF container # << >>
       THEN container' = Tail(container)
       ELSE UNCHANGED container
    /\ UNCHANGED <<call, voiceCommands, voiceRecognition, phase, isDarkMode,
                   theme, hasContainer, sections, resultEvent, dispatch,
                   schemeChange, userToggled, retryOps, handled,
                   inThrottle, resetTimers, sinceInvoked, throttled,
                   isListening, recognition, toggle>>

\* The oldest auto-remove timer fires (src/script.js:979-983); all timers run
\* for the same duration (5000 ms, no caller passes another), so they fire in
\* the order they were set.  The notification is removed if it is still
\* attached, and it is then the oldest one in the container.
NotificationTimeout ==
    /\ timers # << >>
    /\ timers' = Tail(timers)
    /\ tracked' = IF tracked > 0 THEN tracked - 1 ELSE 0
    /\ IF Head(timers)
       THEN container' = Tail(container)
       ELSE UNCHANGED container
    /\ UNCHANGED <<call, voiceCommands, voiceRecognition, phase, isDarkMode,
                   theme, hasContainer, sections, resultEvent, dispatch,
                   schemeChange, userToggled, retryOps, handled,
                   inThrottle, resetTimers, sinceInvoked, throttled,
                   isListening, recognition, toggle>>

----------------------------------------------------------------------------
(* Specifications *)

\* the matcher functions called directly on bounded inputs
InitMatcher ==
    /\ IsCall(call)
    /\ InitManager
    /\ theme = "none"
    /\ hasContainer
    /\ sections = SectionIds

NextMatcher ==
    \/ CallLevenshteinDistance
    \/ CallCalculateSimilarity
    \/ CallFindBestMatch

SpecMatcher == InitMatcher /\ [][NextMatcher]_vars

\* the dispatcher driven by the speech recognizer
InitVoice ==
    /\ call = NoCall
    /\ InitManager

NextVoice ==
    \/ \E supported \in BOOLEAN, prefersDark \in BOOLEAN :
            DeferredSetup(supported, prefersDark)
    \/ \E transcript \in Transcripts : Recognize(transcript)
    \/ OnResult
    \/ NotificationTimeout

SpecVoice == InitVoice /\ [][NextVoice]_vars

\* the theme driven by the user's clicks and by the system colour scheme
NextTheme ==
    \/ \E supported \in BOOLEAN, prefersDark \in BOOLEAN :
            DeferredSetup(supported, prefersDark)
    \/ ClickDarkModeToggle
    \/ \E matches \in BOOLEAN : SystemThemeChange(matches)
    \/ NotificationTimeout

SpecTheme == InitVoice /\ [][NextTheme]_vars

\* retryOperation called with an operation that may throw; the browser runs
\* every timer that is due, which is the fairness assumed
NextRetry ==
    \/ \E maxRetries \in 0..MaxRetriesArg : RetryOperation(maxRetries)
    \/ RetryTimerFires
    \/ NotificationTimeout

SpecRetry ==
    /\ InitVoice
    /\ [][NextRetry]_vars
    /\ WF_vars(RetryTimerFires)
    /\ WF_vars(NotificationTimeout)

\* the transcripts delivered when all operations of the manager interleave:
\* a command that writes the manager's state, one that only scrolls, and an
\* utterance that matches none
CatalogTranscripts ==
    {ConfigVoiceCommands[8].phrase, ConfigVoiceCommands[1].phrase, Unrelated}

\* The document has its sections and no #notification-container:
\* showNotification returns at once, so that the notifications on display,
\* which the other specifications cover, do not multiply the states here.
InitManagerOperations ==
    /\ InitVoice
    /\ ~hasContainer
    /\ sections = SectionIds

\* every operation of the manager: voice commands, theme toggles, system
\* theme changes, error handling with its retries, and cleanup
NextManager ==
    \/ \E supported \in BOOLEAN, prefersDark \in BOOLEAN :
            DeferredSetup(supported, prefersDark)
    \/ \E transcript \in CatalogTranscripts : Recognize(transcript)
    \/ OnResult
    \/ ClickDarkModeToggle
    \/ \E matches \in BOOLEAN : SystemThemeChange(matches)
    \/ \E error \in Errors : HandleErrorEvent(error)
    \/ RetryTimerFires
    \/ Cleanup

SpecManager == InitManagerOperations /\ [][NextManager]_vars

\* errors the window reports, handled and retried
NextError ==
    \/ \E supported \in BOOLEAN, prefersDark \in BOOLEAN :
            DeferredSetup(supported, prefersDark)
    \/ \E error \in Errors : HandleErrorEvent(error)
    \/ RetryTimerFires
    \/ NotificationTimeout

SpecError == InitVoice /\ [][NextError]_vars

\* Notifications shown by theme toggles, closed by hand or removed by their
\* timers; the browser runs every timer that is due, which is the fairness
\* assumed.
NextNotify ==
    \/ \E supported \in BOOLEAN, prefersDark \in BOOLEAN :
            DeferredSetup(supported, prefersDark)
    \/ ClickDarkModeToggle
    \/ \E k \in 1..Len(container) : CloseNotification(k)
    \/ \E i \in 1..Len(timers) : Track(i)
    \/ NotificationTimeout

SpecNotify ==
    /\ InitVoice
    /\ [][NextNotify]_vars
    /\ WF_vars(NotificationTimeout)

----------------------------------------------------------------------------
(* throttle (src/script.js:686-697) and the two handlers setupEventListeners
   gives it (src/script.js:165-180) *)

\* the properties the manager object has: the constructor assigns config,
\* state and components, setupEventListeners the two throttled handlers and
\* setupAccessibility the announcer; nothing assigns any other
Properties ==
    {"config", "state", "components", "throttledScrollHandler",
     "throttledResizeHandler", "announcer"}

\* the errors of calling a method the class does not have and of writing a
\* property of undefined
NotAFunction ==
    [name |-> "TypeError", message |-> "this.updateParticleSystem is not a function"]

UndefinedProperty ==
    [name |-> "TypeError", message |-> "Cannot set properties of undefined"]

\* handleResize (src/script.js:739-760): the scene is resized where scene,
\* camera and renderer exist, updateParticleSystem is called where
\* particleSystem exists, and then this.analytics.screenSize is written
handleResize ==
    IF "particleSystem" \in Properties
    THEN [thrown |-> TRUE, error |-> NotAFunction]
    ELSE IF "analytics" \in Properties
    THEN Returns
    ELSE [thrown |-> TRUE, error |-> UndefinedProperty]

\* the function given to throttle: handleScroll, updateScrollDepth and
\* updateActiveNavigation (src/script.js:726-787) read the document and write
\* the scroll depth, and return
Func(name) == IF name = "resize" THEN handleResize ELSE Returns

\* An error no handler caught reaches the window's 'error' listener
\* (src/script.js:547-549), which setupErrorHandling installs in the deferred
\* setup.
Uncaught(error) ==
    IF phase = "ready"
    THEN \E m \in {handleError(Run(<< >>), error, "Global Error")} :
            /\ retryOps' = m.retryOps
            /\ container' = m.container
            /\ timers' = m.timers
            /\ handled' = [ran |-> TRUE, error |-> error, shown |-> m.shown,
                           outputs |-> m.outputs,
                           retried |-> Len(m.retryOps) - Len(retryOps)]
    ELSE UNCHANGED <<retryOps, container, timers, handled,
                     isListening, recognition, toggle>>

\* The window fires the event and the throttled handler runs: with inThrottle
\* unset it applies func, sets inThrottle and sets the timer that resets it,
\* in this order, so that an error func throws leaves inThrottle unset and no
\* timer; with inThrottle set it does nothing.
ThrottledEvent(name) ==
    /\ phase = "ready" /\ Func(name).thrown =>
            Len(container) + 1 <= MaxNotifications
    /\ throttled' = [ran |-> TRUE, name |-> name, open |-> sinceInvoked[name],
                     invoked |-> ~inThrottle[name],
                     thrown |-> ~inThrottle[name] /\ Func(name).thrown,
                     seq |-> 1 - throttled.seq]
    /\ IF inThrottle[name]
       THEN UNCHANGED <<inThrottle, resetTimers, sinceInvoked, retryOps,
                        container, timers, handled>>
       ELSE /\ sinceInvoked' = [sinceInvoked EXCEPT ![name] = TRUE]
            /\ IF Func(name).thrown
               THEN /\ UNCHANGED <<inThrottle, resetTimers>>
                    /\ Uncaught(Func(name).error)
               ELSE /\ inThrottle' = [inThrottle EXCEPT ![name] = TRUE]
                    /\ resetTimers' = [resetTimers EXCEPT ![name] = @ + 1]
                    /\ UNCHANGED <<retryOps, container, timers, handled>>
    /\ UNCHANGED <<call, voiceCommands, voiceRecognition, phase, isDarkMode,
                   theme, hasContainer, sections, resultEvent, dispatch,
                   schemeChange, userToggled, tracked,
                   isListening, recognition, toggle>>

\* the timer throttle set fires, limit ms after func was applied
ThrottleReset(name) ==
    /\ resetTimers[name] > 0
    /\ inThrottle' = [inThrottle EXCEPT ![name] = FALSE]
    /\ resetTimers' = [resetTimers EXCEPT ![name] = @ - 1]
    /\ sinceInvoked' = [sinceInvoked EXCEPT ![name] = FALSE]
    /\ UNCHANGED <<call, voiceCommands, voiceRecognition, phase, isDarkMode,
                   theme, hasContainer, sections, container, resultEvent,
                   dispatch, schemeChange, userToggled, retryOps, handled,
                   timers, tracked, throttled,
                   isListening, recognition, toggle>>

\* limit ms pass after func was applied and no timer was set
LimitPasses(name) ==
    /\ sinceInvoked[name]
    /\ resetTimers[name] = 0
    /\ sinceInvoked' = [sinceInvoked EXCEPT ![name] = FALSE]
    /\ UNCHANGED <<call, voiceCommands, voiceRecognition, phase, isDarkMode,
                   theme, hasContainer, sections, container, resultEvent,
                   dispatch, schemeChange, userToggled, retryOps, handled,
                   timers, tracked, inThrottle, resetTimers, throttled,
                   isListening, recognition, toggle>>

\* the window scrolled and resized
NextThrottle ==
    \/ \E supported \in BOOLEAN, prefersDark \in BOOLEAN :
            DeferredSetup(supported, prefersDark)
    \/ \E name \in Throttles : ThrottledEvent(name)
    \/ \E name \in Throttles : ThrottleReset(name)
    \/ \E name \in Throttles : LimitPasses(name)
    \/ NotificationTimeout

SpecThrottle == InitVoice /\ [][NextThrottle]_vars

----------------------------------------------------------------------------
(* The voice button and the recognizer's session (src/script.js:217-221,
   286-324, 910-921) *)

\* a call of a method of the recognizer
Method(m, name) == [m EXCEPT !.outputs = Append(@, [call |-> name, arg |-> ""])]

\* always start(), whatever isListening is
toggleVoiceRecognitionNoListeningTest(m) ==
    IF voiceRecognition = "null"
    THEN showNotification(m, <<"Voice recognition not supported">>, "warning")
    ELSE Method(m, "start")

\* toggleVoiceRecognition (src/script.js:910-921)
toggleVoiceRecognition(m) ==
    IF voiceRecognition = "null"
    THEN showNotification(m, <<"Voice recognition not supported">>, "warning")
    ELSE IF isListening
    THEN Method(m, "stop")
    ELSE Method(m, "start")

\* whether the run has called the method
Called(outputs, name) == \E k \in 1..Len(outputs) : outputs[k].call = name

\* A click on #voice-button (src/script.js:217-221), or Space or Enter on it
\* (src/script.js:1017-1020): toggleVoiceRecognition.  The click listener is
\* added by setupEventListeners, before the deferred setup; where the browser
\* has no recognizer the deferred setup hides the button.  The error start()
\* throws is caught by nothing and reaches the window.
VoiceButton ==
    /\ phase = "constructed" \/ voiceRecognition = "recognizer"
    /\ Len(container) + 1 <= MaxNotifications
    /\ \E m \in {toggleVoiceRecognition(Run(<< >>))} :
            /\ toggle' = [ran |-> TRUE, isListening |-> isListening,
                          recognition |-> recognition, outputs |-> m.outputs,
                          shown |-> m.shown, seq |-> 1 - toggle.seq]
            /\ recognition' =
                    IF Called(m.outputs, "start") THEN start(recognition)
                    ELSE IF Called(m.outputs, "stop") THEN stop(recognition)
                    ELSE recognition
            /\ IF Called(m.outputs, "start") /\ recognition # "idle"
               THEN Uncaught(InvalidStateError)
               ELSE /\ container' = m.container
                    /\ timers' = m.timers
                    /\ UNCHANGED <<retryOps, handled>>
    /\ UNCHANGED <<call, voiceCommands, voiceRecognition, phase, isDarkMode,
                   theme, hasContainer, sections, resultEvent, dispatch,
                   schemeChange, userToggled, tracked, inThrottle,
                   resetTimers, sinceInvoked, throttled, isListening>>

\* voiceRecognition.onstart (src/script.js:295-299)
OnStart ==
    /\ recognition = "starting"
    /\ Len(container) + 1 <= MaxNotifications
    /\ recognition' = "active"
    /\ isListening' = TRUE
    /\ \E m \in {showNotification(Run(<< >>), <<"Listening...">>, "info")} :
            /\ container' = m.container
            /\ timers' = m.timers
    /\ UNCHANGED <<call, voiceCommands, voiceRecognition, phase, isDarkMode,
                   theme, hasContainer, sections, resultEvent, dispatch,
                   schemeChange, userToggled, retryOps, handled, tracked,
                   inThrottle, resetTimers, sinceInvoked, throttled, toggle>>

\* The recognizer of a session that has started has heard a transcript and
\* queues its result event; a session that is being stopped delivers what it
\* has heard so far.
Hear(transcript) ==
    /\ recognition \in {"active", "stopping"}
    /\ ~resultEvent.pending
    /\ Len(container) + 2 <= MaxNotifications
    /\ resultEvent' = [pending |-> TRUE, transcript |-> transcript]
    /\ dispatch' = NoDispatch
    /\ recognition' = "stopping"
    /\ UNCHANGED <<call, voiceCommands, voiceRecognition, phase, isDarkMode,
                   theme, hasContainer, sections, container, schemeChange,
                   userToggled, retryOps, handled, timers, tracked,
                   inThrottle, resetTimers, sinceInvoked, throttled,
                   isListening, toggle>>

\* voiceRecognition.onerror (src/script.js:306-311); the end event follows
OnError ==
    /\ recognition \in {"starting", "active", "stopping"}
    /\ ~resultEvent.pending
    /\ Len(container) + 1 <= MaxNotifications
    /\ recognition' = "ending"
    /\ \E m \in {showNotification(Run(<< >>), <<"Voice recognition error">>,
                                  "error")} :
            /\ container' = m.container
            /\ timers' = m.timers
    /\ isListening' = FALSE
    /\ UNCHANGED <<call, voiceCommands, voiceRecognition, phase, isDarkMode,
                   theme, hasContainer, sections, resultEvent, dispatch,
                   schemeChange, userToggled, retryOps, handled, tracked,
                   inThrottle, resetTimers, sinceInvoked, throttled, toggle>>

\* voiceRecognition.onend (src/script.js:313-316), the last event of a session
OnEnd ==
    /\ recognition \in {"active", "stopping", "ending"}
    /\ ~resultEvent.pending
    /\ recognition' = "idle"
    /\ isListening' = FALSE
    /\ UNCHANGED <<call, voiceCommands, voiceRecognition, phase, isDarkMode,
                   theme, hasContainer, sections, container, resultEvent,
                   dispatch, schemeChange, userToggled, retryOps, handled,
                   timers, tracked, inThrottle, resetTimers, sinceInvoked,
                   throttled, toggle>>

\* what the recognizer hears in the sessions the voice button starts
SessionTranscripts == {ConfigVoiceCommands[8].phrase, Unrelated}

\* the voice button pressed at any time and the recognizer's events
NextListen ==
    \/ \E supported \in BOOLEAN, prefersDark \in BOOLEAN :
            DeferredSetup(supported, prefersDark)
    \/ VoiceButton
    \/ OnStart
    \/ \E transcript \in SessionTranscripts : Hear(transcript)
    \/ OnResult
    \/ OnError
    \/ OnEnd
    \/ NotificationTimeout

SpecListen == InitVoice /\ [][NextListen]_vars

----------------------------------------------------------------------------
(* The edit distance, defined by the edits themselves *)

Max(x, y) == IF x >= y THEN x ELSE y

\* the strings one insertion, one deletion or one substitution away from s
Inserted(s) ==
    {SubSeq(s, 1, i) \o <<c>> \o SubSeq(s, i + 1, Len(s)) :
        i \in 0..Len(s), c \in Alphabet}

Deleted(s) ==
    {SubSeq(s, 1, i - 1) \o SubSeq(s, i + 1, Len(s)) : i \in 1..Len(s)}

Substituted(s) ==
    {[s EXCEPT ![i] = c] : i \in 1..Len(s), c \in Alphabet}

\* A shortest sequence of edits can delete first, substitute next and insert
\* last, so it passes through no string longer than the longer of its two
\* ends: the search stays within the strings of length MaxLen.
OneEdit(s) ==
    {t \in Inserted(s) \cup Deleted(s) \cup Substituted(s) : Len(t) <= MaxLen}

\* the strings at most k edits away from s
RECURSIVE WithinEdits(_, _)
WithinEdits(s, k) ==
    IF k = 0 THEN {s}
    ELSE LET near == WithinEdits(s, k - 1)
         IN  near \cup UNION {OneEdit(t) : t \in near}

\* the minimum number of single-character edits that transform a into b
MinimumEdits(a, b) ==
    CHOOSE k \in 0..(2 * MaxLen) :
        /\ b \in WithinEdits(a, k)
        /\ \A m \in 0..(k - 1) : b \notin WithinEdits(a, m)

----------------------------------------------------------------------------
(* Claims about the matcher functions, checked under SpecMatcher *)

Returned(fn) == call.fn = fn /\ call.done

\* C1: levenshteinDistance(a, b) is the minimum number of single-character
\* insertions, deletions and substitutions that transform a into b, for all
\* strings over the bounded alphabet and length; the distance between "kitten"
\* and "sitting" is 3.
C1_LevenshteinIsMinimumEdits ==
    Returned("levenshteinDistance") =>
        /\ (call.str1 \in Strings /\ call.str2 \in Strings)
                => call.distance = MinimumEdits(call.str1, call.str2)
        /\ (call.str1 = Kitten /\ call.str2 = Sitting) => call.distance = 3

\* the distance between "kitten" and "sitting" has been computed
C1_Witness ==
    /\ Returned("levenshteinDistance")
    /\ call.str1 = Kitten /\ call.str2 = Sitting
    /\ call.distance = 3

\* C2: calculateSimilarity(a, b) is 1.0 when both strings are empty, and
\* otherwise (L - d) / L with L the length of the longer string and d the edit
\* distance between a and b; the similarity of "" and "abc" is 0.0.
C2_SimilarityIsNormalizedDistance ==
    Returned("calculateSimilarity") =>
        /\ (call.str1 \in Strings /\ call.str2 \in Strings) =>
                LET L == Max(Len(call.str1), Len(call.str2))
                IN  call.score =
                        IF L = 0 THEN One
                        ELSE Quotient(L - MinimumEdits(call.str1, call.str2), L)
        /\ (call.str1 = << >> /\ call.str2 = Abc) => call.score = Zero

\* the similarity of "" and "abc" has been computed
C2_Witness ==
    /\ Returned("calculateSimilarity")
    /\ call.str1 = << >> /\ call.str2 = Abc
    /\ call.score = Zero

\* the similarity of the input with the k-th candidate of the call
ScoreOf(k) == calculateSimilarity(call.str1, call.commands[k])

\* the first candidate, in iteration order, whose similarity is the maximum
\* over the catalog
FirstBest ==
    CHOOSE k \in 1..Len(call.commands) :
        /\ \A j \in 1..Len(call.commands) : AtMost(ScoreOf(j), ScoreOf(k))
        /\ \A j \in 1..(k - 1) : ScoreOf(j) # ScoreOf(k)

SomeScoreAboveZero ==
    \E k \in 1..Len(call.commands) : Greater(ScoreOf(k), Zero)

Candidates == {call.commands[k] : k \in 1..Len(call.commands)}

\* C3 as claimed: for every catalog findBestMatch returns the candidate whose
\* similarity is the maximum over the catalog, the first one among equals.
C3_AlwaysFirstBest ==
    (Returned("findBestMatch") /\ call.commands # << >>) =>
        /\ call.bestMatch.command = call.commands[FirstBest]
        /\ call.bestMatch.score = ScoreOf(FirstBest)

\* C3, amended: when some candidate has a similarity above 0, findBestMatch
\* returns the first candidate in iteration order whose similarity is the
\* maximum over the catalog, with that score (a later candidate with an equal
\* score never replaces the current best); when no candidate scores above 0 it
\* returns no candidate (null) with score 0.
C3_FirstBestAboveZero ==
    Returned("findBestMatch") =>
        IF SomeScoreAboveZero
        THEN /\ call.bestMatch.command = call.commands[FirstBest]
             /\ call.bestMatch.score = ScoreOf(FirstBest)
        ELSE call.bestMatch = [command |-> Null, score |-> Zero]

\* two different candidates tie above 0 and the first one is returned
C3_Witness ==
    /\ Returned("findBestMatch")
    /\ Len(call.commands) = 2
    /\ call.commands[1] # call.commands[2]
    /\ ScoreOf(1) = ScoreOf(2)
    /\ Greater(ScoreOf(1), Zero)
    /\ call.bestMatch.command = call.commands[1]

\* C4 as claimed: with a non-empty catalog the returned phrase is a member of
\* the catalog, and the phrase is null only when the catalog is empty.
C4_MemberUnlessEmpty ==
    Returned("findBestMatch") =>
        /\ call.commands # << >> => call.bestMatch.command \in Candidates
        /\ call.bestMatch.command = Null => call.commands = << >>

\* C4, amended: findBestMatch returns a phrase that is a member of the
\* catalog or a null phrase, and the phrase is null exactly when no candidate
\* has a similarity above 0, which includes the empty catalog.
C4_MemberOrNull ==
    Returned("findBestMatch") =>
        /\ call.bestMatch.command \in Candidates \cup {Null}
        /\ call.bestMatch.command = Null <=> ~SomeScoreAboveZero

\* a non-empty catalog none of whose candidates shares a character with the
\* input: the phrase returned is null
C4_Witness ==
    /\ Returned("findBestMatch")
    /\ call.commands # << >>
    /\ call.bestMatch.command = Null

\* C5: findBestMatch called with an empty catalog returns a null phrase and
\* score 0, for every input.
C5_EmptyCatalog ==
    (Returned("findBestMatch") /\ call.commands = << >>) =>
        call.bestMatch = [command |-> Null, score |-> Zero]

\* a non-empty input has been matched against the empty catalog
C5_Witness ==
    /\ Returned("findBestMatch")
    /\ call.commands = << >>
    /\ Len(call.str1) > 0
    /\ call.bestMatch.command = Null

\* C8: calculateSimilarity(s, s) is exactly 1.0 for every string s, the empty
\* string included.
C8_SelfSimilarityIsOne ==
    (Returned("calculateSimilarity") /\ call.str1 = call.str2) => call.score = One

\* a non-empty string has been compared with itself
C8_Witness ==
    /\ Returned("calculateSimilarity")
    /\ call.str1 = call.str2
    /\ Len(call.str1) > 1
    /\ call.score = One

\* C9: calculateSimilarity(a, b) equals calculateSimilarity(b, a), also when a
\* and b have the same length.
C9_SimilarityIsSymmetric ==
    Returned("calculateSimilarity") =>
        call.score = calculateSimilarity(call.str2, call.str1)

\* two different strings of the same length have been compared
C9_Witness ==
    /\ Returned("calculateSimilarity")
    /\ Len(call.str1) = Len(call.str2)
    /\ call.str1 # call.str2
    /\ Greater(call.score, Zero)

\* C10: calculateSimilarity(a, b) lies in [0, 1]; the edit distance computed
\* is never negative and never exceeds the length of the longer string.
C10_SimilarityInUnitInterval ==
    /\ Returned("calculateSimilarity") =>
            AtMost(Zero, call.score) /\ AtMost(call.score, One)
    /\ Returned("levenshteinDistance") =>
            /\ 0 <= call.distance
            /\ call.distance <= Max(Len(call.str1), Len(call.str2))

\* a similarity strictly between 0 and 1 has been computed
C10_Witness ==
    /\ Returned("calculateSimilarity")
    /\ Greater(call.score, Zero)
    /\ Greater(One, call.score)

\* no phrase occurs twice in the catalog
Distinct(commands) ==
    \A i, j \in 1..Len(commands) : commands[i] = commands[j] => i = j

\* C11: for every catalog of distinct phrases and every input that is
\* literally equal to one of its phrases, findBestMatch returns exactly that
\* phrase with score 1.0, whatever the position of the phrase in the catalog
\* and whatever the other phrases are.
C11_ExactPhraseWins ==
    (Returned("findBestMatch") /\ Distinct(call.commands)
        /\ call.str1 \in Candidates) =>
            call.bestMatch = [command |-> call.str1, score |-> One]

\* the input is the last phrase of the catalog, after a different phrase that
\* scores above 0 and so is the best match until the last one is reached
C11_Witness ==
    /\ Returned("findBestMatch")
    /\ Len(call.commands) = 2
    /\ call.commands[2] = call.str1
    /\ call.commands[1] # call.str1
    /\ Greater(ScoreOf(1), Zero)
    /\ call.bestMatch = [command |-> call.str1, score |-> One]

\* b is a with one character inserted, deleted or substituted
SingleEdit(a, b) ==
    a # b /\ b \in Inserted(a) \cup Deleted(a) \cup Substituted(a)

\* C12: a string that differs from a phrase by a single inserted, deleted or
\* substituted character, the longer of the two having at least 3
\* characters, has a similarity with it strictly above 0.6; an utterance that
\* differs in this way from a phrase of the catalog gets a best score strictly
\* above 0.6, which is the acceptance test of processVoiceCommand; and for
\* the catalog "go to contact", "show projects", "about me" the input
\* "go too contact" returns "go to contact" with score 13/14.
C12_SingleEditAccepted ==
    /\ (Returned("calculateSimilarity") /\ SingleEdit(call.str1, call.str2)
            /\ Max(Len(call.str1), Len(call.str2)) >= 3) =>
                Greater(call.score, Threshold)
    /\ Returned("findBestMatch") =>
            \A k \in 1..Len(call.commands) :
                (SingleEdit(call.commands[k], call.str1)
                    /\ Max(Len(call.commands[k]), Len(call.str1)) >= 3) =>
                        Greater(call.bestMatch.score, Threshold)
    /\ (Returned("findBestMatch") /\ call.str1 = GoTooContact
            /\ call.commands = ThreePhrases) =>
                call.bestMatch = [command |-> GoToContact, score |-> Quotient(13, 14)]

\* "go too contact" has been matched against the three phrases
C12_Witness ==
    /\ Returned("findBestMatch")
    /\ call.str1 = GoTooContact
    /\ call.commands = ThreePhrases
    /\ call.bestMatch.command = GoToContact
    /\ Greater(call.bestMatch.score, Threshold)

\* a finite number: neither NaN nor an infinity
IsFinite(x) == x.num \in Int /\ x.den \in Nat /\ x.den > 0

\* C13: levenshteinDistance, calculateSimilarity and findBestMatch return a
\* well-defined value for every string and every catalog, the empty input,
\* empty candidate phrases and the empty catalog included: the distance is a
\* natural number, the similarity is a finite number, and the match is a
\* phrase of the catalog or null together with a finite score.
C13_AlwaysReturnsValue ==
    /\ Returned("levenshteinDistance") => call.distance \in Nat
    /\ Returned("calculateSimilarity") => IsFinite(call.score)
    /\ Returned("findBestMatch") =>
            /\ call.bestMatch.command \in Candidates \cup {Null}
            /\ IsFinite(call.bestMatch.score)

\* the empty input has been matched against a catalog that holds the empty
\* phrase
C13_Witness ==
    /\ Returned("findBestMatch")
    /\ call.str1 = << >>
    /\ << >> \in Candidates
    /\ call.bestMatch = [command |-> << >>, score |-> One]

C19_OneOnlyIfSame ==
    (Returned("calculateSimilarity") /\ call.score = One) => call.str1 = call.str2

\* two strings of the greatest length have been given the score 1.0
C19_Witness ==
    /\ Returned("calculateSimilarity")
    /\ call.score = One
    /\ Len(call.str1) = MaxLen
    /\ Len(call.str2) = MaxLen

----------------------------------------------------------------------------
(* Claims about the dispatcher, checked under SpecVoice *)

\* what findBestMatch returned to the last run
BestOfDispatch == dispatch.bestMatch

NotRecognized == [message |-> <<"Command not recognized">>, type |-> "warning"]

ShownByDispatch == {dispatch.shown[k] : k \in 1..Len(dispatch.shown)}

\* C6: processVoiceCommand accepts a match only when its score is strictly
\* greater than 0.6: for every utterance whose best score is at most 0.6,
\* exactly 0.6 included, no command action is invoked and the 'Command not
\* recognized' notification is issued (showNotification is called with it, and
\* with nothing else).
C6_StrictThreshold ==
    (dispatch.ran /\ AtMost(BestOfDispatch.score, Threshold)) =>
        /\ dispatch.invoked = << >>
        /\ dispatch.shown = <<NotRecognized>>
        /\ dispatch.outputs = << >>

\* an utterance whose best score is exactly 0.6 has been dispatched
C6_Witness ==
    /\ dispatch.ran
    /\ BestOfDispatch.score = Threshold
    /\ dispatch.invoked = << >>
    /\ dispatch.shown = <<NotRecognized>>
    /\ BestOfDispatch = findBestMatch(dispatch.command, ObjectKeys(voiceCommands))

\* C7: processVoiceCommand does exactly one of two things: it invokes exactly
\* one catalog action, the one bound to the phrase findBestMatch returns, or
\* it invokes no action and issues the 'Command not recognized' notification;
\* never both, and never an action bound to another phrase.
C7_OneActionOrNotRecognized ==
    dispatch.ran =>
        \/ /\ BestOfDispatch.command \in Phrases
           /\ dispatch.invoked = <<Lookup(voiceCommands, BestOfDispatch.command)>>
           /\ NotRecognized \notin ShownByDispatch
        \/ /\ dispatch.invoked = << >>
           /\ dispatch.shown = <<NotRecognized>>

\* an utterance that is no catalog phrase has been accepted and the action of
\* the winning phrase invoked
C7_Witness ==
    /\ dispatch.ran
    /\ dispatch.command \notin Phrases
    /\ Len(dispatch.invoked) = 1
    /\ dispatch.invoked[1] = Lookup(voiceCommands, BestOfDispatch.command)
    /\ BestOfDispatch = findBestMatch(dispatch.command, ObjectKeys(voiceCommands))

\* The voice commands as the README lists them (src/README.md:168-179), each
\* phrase with the action documented for it: "Navigate to ... section" is
\* scrollToSection of that section, "Trigger resume download" is
\* downloadResume, "Switch themes" is toggleDarkMode and "Scroll to top" is
\* scrollToTop.
ReadmeVoiceCommands ==
    <<[phrase |-> GoToContact,
       action |-> [fn |-> "scrollToSection", arg |-> "contact"]],
      [phrase |-> ShowProjects,
       action |-> [fn |-> "scrollToSection", arg |-> "projects"]],
      [phrase |-> AboutMe,
       action |-> [fn |-> "scrollToSection", arg |-> "about"]],
      [phrase |-> <<"s", "k", "i", "l", "l", "s">>,
       action |-> [fn |-> "scrollToSection", arg |-> "skills"]],
      [phrase |-> <<"e", "d", "u", "c", "a", "t", "i", "o", "n">>,
       action |-> [fn |-> "scrollToSection", arg |-> "education"]],
      [phrase |-> <<"d", "o", "w", "n", "l", "o", "a", "d", " ", "r", "e", "s", "u", "m", "e">>,
       action |-> [fn |-> "downloadResume", arg |-> ""]],
      [phrase |-> <<"g", "o", " ", "h", "o", "m", "e">>,
       action |-> [fn |-> "scrollToTop", arg |-> ""]],
      [phrase |-> <<"t", "o", "g", "g", "l", "e", " ", "d", "a", "r", "k", " ", "m", "o", "d", "e">>,
       action |-> [fn |-> "toggleDarkMode", arg |-> ""]],
      [phrase |-> <<"s", "c", "r", "o", "l", "l", " ", "t", "o", " ", "t", "o", "p">>,
       action |-> [fn |-> "scrollToTop", arg |-> ""]]>>

ReadmePhrases == {ReadmeVoiceCommands[k].phrase : k \in 1..Len(ReadmeVoiceCommands)}

\* C16: each of the nine voice commands of the README, spoken exactly (after
\* lower-casing and trimming), dispatches the action the README documents for
\* it, and that action has its documented effect: the five section commands
\* navigate to their section, 'download resume' starts the download, 'toggle
\* dark mode' switches the theme, and both 'go home' and 'scroll to top'
\* scroll to the top.
C16_DocumentedActions ==
    (dispatch.ran /\ dispatch.command \in ReadmePhrases) =>
        LET documented == Lookup(ReadmeVoiceCommands, dispatch.command)
        IN  /\ dispatch.invoked = <<documented>>
            /\ documented.fn = "scrollToTop" =>
                    dispatch.outputs = <<[call |-> "scrollTo", arg |-> "top"]>>

----------------------------------------------------------------------------
(* Claims about the theme, checked under SpecTheme *)

\* C17: as long as the user has never explicitly toggled the theme, every
\* change of the system colour scheme after setupDarkMode sets
\* state.isDarkMode to the new system preference and applies it again.
C17_FollowsSystemPreference ==
    [][(~userToggled /\ schemeChange' # schemeChange) =>
            /\ isDarkMode' = schemeChange'.matches
            /\ theme' = IF schemeChange'.matches THEN "dark" ELSE "light"]_vars

----------------------------------------------------------------------------
(* Claims about the manager as a whole, checked under SpecManager *)

\* C15: once the constructor has built config.voiceCommands, the set of
\* phrases and the action bound to each phrase stay the same in every
\* reachable state, under any sequence of voice commands, theme toggles,
\* system theme changes, handled errors with their retries, and cleanup.
C15_CatalogNeverChanges ==
    /\ {voiceCommands[k].phrase : k \in 1..Len(voiceCommands)} = Phrases
    /\ Len(voiceCommands) = Len(ConfigVoiceCommands)
    /\ \A p \in Phrases :
            Lookup(voiceCommands, p) = Lookup(ConfigVoiceCommands, p)

\* a voice command has invoked its action, the user has toggled the theme,
\* the system theme has changed, an error has been handled and retried, and
\* cleanup has dropped the recognizer
C15_Witness ==
    /\ dispatch.ran
    /\ dispatch.invoked # << >>
    /\ userToggled
    /\ schemeChange.delivered
    /\ retryOps # << >>
    /\ phase = "ready"
    /\ voiceRecognition = "null"
    /\ voiceCommands = ConfigVoiceCommands

----------------------------------------------------------------------------
(* Claims about retryOperation, checked under SpecRetry *)

RetryOps == {retryOps[i] : i \in 1..Len(retryOps)}

\* no timer of a retryOperation call is pending
NoTimerPending == \A r \in RetryOps : r.timer = 0

\* C18: retryOperation(operation, maxRetries) calls the operation at most
\* maxRetries times in total and sets at most maxRetries timers, sets no
\* timer once an attempt has returned without throwing, calls handleError for
\* every attempt that has thrown, and terminates: from some point on no timer
\* is pending, also when the operation throws every time.
C18_BoundedRetries ==
    /\ [](\A r \in RetryOps :
            /\ r.attempts <= r.maxRetries
            /\ Len(r.delays) <= r.maxRetries
            /\ r.returned => r.timer = 0 /\ r.attempts = Len(r.delays)
            /\ r.reported = r.thrown)
    /\ <>[]NoTimerPending

\* an operation that has thrown on every attempt has been given up after
\* three attempts, each one reported
C18_Witness ==
    \E r \in RetryOps :
        /\ r.operation = "given"
        /\ r.maxRetries = 3
        /\ r.attempts = 3
        /\ r.thrown = 3
        /\ r.reported = 3
        /\ r.timer = 0

\* C20: the k-th attempt of a retryOperation call (k = 1..maxRetries) is set
\* for 2^k * 1000 ms after the previous attempt has failed, or after the call
\* for k = 1, so every delay is twice the one before; every attempt runs from
\* a timer, none inside the call of retryOperation itself.
C20_ExponentialBackoff ==
    \A r \in RetryOps :
        /\ \A k \in 1..Len(r.delays) : r.delays[k] = MathPow(2, k) * 1000
        /\ \A k \in 1..(Len(r.delays) - 1) : r.delays[k + 1] = 2 * r.delays[k]
        /\ r.attempts = Len(r.delays) - (IF r.timer # 0 THEN 1 ELSE 0)
        /\ r.timer # 0 => r.timer = r.delays[Len(r.delays)]

\* the third attempt is pending, 8000 ms after the second one has failed
C20_Witness ==
    \E r \in RetryOps :
        /\ r.operation = "given"
        /\ r.delays = <<2000, 4000, 8000>>
        /\ r.timer = 8000
        /\ r.attempts = 2
        /\ r.thrown = 2

----------------------------------------------------------------------------
(* Claims about handleError, checked under SpecError *)

ErrorNotification ==
    [message |-> <<"An error occurred. Please try again.">>, type |-> "error"]

\* C22: handleError called with a null or undefined error starts no retry,
\* reports nothing, calls showNotification for nothing and leaves the state
\* of the manager as it was; called with any other error it reports the
\* error once and calls showNotification exactly once, with the error
\* notification, which is appended to the container where there is one.
C22_NullErrorIgnored ==
    [][handled' # handled =>
            IF handled'.error = NullError
            THEN /\ handled'.retried = 0
                 /\ handled'.outputs = << >>
                 /\ handled'.shown = << >>
                 /\ UNCHANGED <<voiceCommands, voiceRecognition, phase,
                                isDarkMode, theme, hasContainer, sections,
                                container, resultEvent, dispatch, schemeChange,
                                userToggled, retryOps,
                                timers, tracked,
                                inThrottle, resetTimers, sinceInvoked, throttled,
                                isListening, recognition, toggle>>
            ELSE /\ handled'.outputs = <<[call |-> "reportError", arg |-> "Global Error"]>>
                 /\ handled'.shown = <<ErrorNotification>>
                 /\ container' =
                        IF hasContainer THEN Append(container, ErrorNotification)
                        ELSE container]_vars

\* handleError has run for a null error with a notification on display, and
\* nothing has been added
C22_Witness ==
    /\ handled.ran
    /\ handled.error = NullError
    /\ handled.shown = << >>
    /\ Len(container) = 1
    /\ retryOps = << >>

----------------------------------------------------------------------------
(* Claims about the notifications, checked under SpecNotify *)

\* the notification that is followed is in the container
TrackedOnDisplay == tracked # 0 /\ timers[tracked]

\* C24: every notification that showNotification appends to the container
\* has one auto-remove timer pending and is eventually removed, by its close
\* button or by its timer; a timer that fires after its notification has been
\* closed by hand changes nothing; and without the container element nothing
\* is created and no timer is set.
C24_NotificationsRemoved ==
    /\ [](/\ Cardinality(Attached) = Len(container)
          /\ ~hasContainer => (container = << >> /\ timers = << >>))
    /\ [][(timers # << >> /\ timers' = Tail(timers) /\ ~Head(timers)) =>
                container' = container]_vars
    /\ TrackedOnDisplay ~> ~TrackedOnDisplay

\* a notification has been closed by hand and its timer is still pending,
\* ahead of the timer of a newer notification that is on display and followed
C24_Witness ==
    /\ timers = <<FALSE, TRUE>>
    /\ Len(container) = 1
    /\ tracked = 2

----------------------------------------------------------------------------
(* Claims about the throttled handlers, checked under SpecThrottle *)

\* the step is a call of a throttled handler
ThrottledCall == throttled'.seq # throttled.seq

\* C21: a throttled handler applies its function on a call exactly when the
\* function was not applied within the limit before it; while a window-reset
\* timer is pending no call applies the function, every call that applies it
\* leaves exactly one such timer pending, and a timer that fires applies
\* nothing.
C21_ThrottleWindow ==
    /\ [][ThrottledCall =>
            /\ throttled'.invoked <=> ~throttled'.open
            /\ throttled'.invoked =>
                    /\ resetTimers[throttled'.name] = 0
                    /\ resetTimers'[throttled'.name] = 1]_vars
    /\ [][~ThrottledCall => throttled' = throttled]_vars

\* C25: a resize event that the throttled handler accepts raises no error
\* and opens the throttle window.
C25_ResizeNeverThrows ==
    [][ThrottledCall /\ throttled'.name = "resize" /\ throttled'.invoked =>
            /\ ~throttled'.thrown
            /\ inThrottle'["resize"]]_vars

----------------------------------------------------------------------------
(* Claims about the voice button and the recognizer's session, checked under
   SpecListen *)

\* the step is a run of toggleVoiceRecognition
Activation == toggle'.seq # toggle.seq

\* between the session's start event and its next error or end event
Started == recognition \in {"active", "stopping"}

\* an utterance is processed only by onresult, for the event that was waiting
ProcessedOnResult ==
    [][dispatch' # dispatch /\ dispatch'.ran =>
            /\ resultEvent.pending
            /\ ~resultEvent'.pending
            /\ dispatch'.command = trim(toLowerCase(resultEvent.transcript))]_vars

\* C23 as stated: isListening is true exactly from onstart to the next onend
\* or onerror, every run of toggleVoiceRecognition calls stop() when
\* isListening is true and start() when it is false, and an utterance is
\* processed only in response to onresult.
C23_ListeningAndToggle ==
    /\ [](isListening <=> Started)
    /\ [][Activation =>
            IF isListening
            THEN Called(toggle'.outputs, "stop")
            ELSE Called(toggle'.outputs, "start")]_vars
    /\ ProcessedOnResult

\* C23, amended: isListening is true exactly from onstart to the next onend
\* or onerror; a run of toggleVoiceRecognition that finds a recognizer calls
\* stop() when isListening is true and start() when it is false, and only
\* that, and a run that finds none calls neither and shows the warning; and
\* an utterance is processed only in response to onresult.
C23_ListeningAndToggleWithRecognizer ==
    /\ [](isListening <=> Started)
    /\ [][Activation =>
            IF voiceRecognition = "null"
            THEN /\ toggle'.outputs = << >>
                 /\ toggle'.shown =
                        <<[message |-> <<"Voice recognition not supported">>,
                           type |-> "warning"]>>
            ELSE /\ toggle'.shown = << >>
                 /\ toggle'.outputs =
                        <<[call |-> IF isListening THEN "stop" ELSE "start",
                           arg |-> ""]>>]_vars
    /\ ProcessedOnResult

\* the button has been pressed while listening and stop() has been called
C23_Witness ==
    /\ toggle.ran
    /\ toggle.isListening
    /\ Called(toggle.outputs, "stop")
    /\ isListening
    /\ recognition = "stopping"

\* C26: toggleVoiceRecognition calls start() only on a recognizer that has no
\* session under way.
C26_NoSecondStart ==
    [][Activation /\ Called(toggle'.outputs, "start") =>
            recognition = "idle"]_vars

\* C27: where the browser has a recognizer, the last activation of the voice
\* button has called start() or stop() and has not told the user that voice
\* recognition is not supported.
C27_ActivationStartsOrStops ==
    toggle.ran /\ voiceRecognition = "recognizer" =>
        /\ Called(toggle.outputs, "start") \/ Called(toggle.outputs, "stop")
        /\ toggle.shown = << >>

====
